---- MODULE Spec2Model ----
(***************************************************************************)
(* A model of the assembly viewer of src/main.rs: main registers the ASM   *)
(* grammar and language, opens a window whose root view is built by        *)
(* AssemblyViewer::new (registry lookup, highlighting pass), and the view  *)
(* is then rendered through a virtualized list.                            *)
(*                                                                         *)
(* A text is a sequence of one-character strings; offsets are 0-based and  *)
(* ranges half-open, as in the source; sequences are 1-based, so the       *)
(* character at offset p of T is T[p + 1].                                 *)
(***************************************************************************)
EXTENDS Integers, Sequences, FiniteSets, TLC

VARIABLES
    pc,          \* position of the main thread
    events,      \* the calls main has made so far, in order
    registry,    \* the LanguageRegistry: grammars, languages, initialized
    config,      \* register_asm_extension's parsed LanguageConfig
    window,      \* "closed", "opening" (root view being built) or "open"
    source,      \* the source argument of AssemblyViewer::new
    asm_lang,    \* AssemblyViewer::new's local asm_lang
    captures,    \* the capture list the classifier produced in the pass
    lines,       \* AssemblyViewer::new's local lines
    viewer,      \* the AssemblyViewer entity, NoViewer before construction
    panic,       \* the message of the panic that ended the program
    item_count,  \* the item count handed to uniform_list by the last render
    range,       \* the range of the last call of the list callback
    items        \* the items the last call of the list callback returned

vars == <<pc, events, registry, config, window, source, asm_lang, captures,
          lines, viewer, panic, item_count, range, items>>

-----------------------------------------------------------------------------
(* Bounds *)

\* longest source text explored for AssemblyViewer::new
MaxLen == 3
\* longest capture list the classifier returns for AssemblyViewer::new
MaxCaps == 2
\* longest capture list the classifier returns in a run of main
MaxViewCaps == 1

-----------------------------------------------------------------------------
(* Values *)

NL == "\n"
Chars == {"a", "b", NL}
NoCapture == ""
NoPanic == "none"
NoViewer == [none |-> TRUE]
NoLang == [none |-> TRUE]
NoConfig == [none |-> TRUE]
InvalidConfig == [invalid |-> TRUE]
NoItems == [none |-> TRUE]
NoRange == [none |-> TRUE]
NoCount == [none |-> TRUE]

Min(a, b) == IF a < b THEN a ELSE b
Max(a, b) == IF a > b THEN a ELSE b

Texts == UNION {[1..n -> Chars] : n \in 0..MaxLen}

\* The demo source, abridged to its first and its last line: the raw string
\* starts with a line terminator and ends with "ret" and a line terminator.
ARM64_CODE == <<NL, "r", "e", "t", NL>>

\* The capture names the colour match knows.
ThemedNames == {"label", "keyword", "register", "number", "comment"}
\* The names a highlight query may give: the themed ones, an unknown one and
\* one that has a themed name as a prefix.
CaptureNames == ThemedNames \cup {"foo", "keyword.control"}
\* The names used when exploring AssemblyViewer::new on arbitrary texts.
BuilderNames == {"keyword", "register"}

dark_theme ==
    [background   |-> 1973790,
     default_text |-> 13948116,
     keyword      |-> 5676246,
     comment      |-> 6986069,
     register     |-> 5163440,
     number       |-> 11914920,
     label        |-> 14474410]

-----------------------------------------------------------------------------
(* The capture classifier: an external collaborator.  For a text it yields *)
(* some list of captures (start, end, name) within the text, ordered by    *)
(* ascending start offset.                                                 *)

CapturesOf(T, names) ==
    {c \in [start : 0..Len(T), end : 0..Len(T), name : names] : c.start <= c.end}

SortedByStart(cs) ==
    \A i \in 1..(Len(cs) - 1) : cs[i].start <= cs[i + 1].start

ClassifierOutputs(T, names, k) ==
    {cs \in UNION {[1..n -> CapturesOf(T, names)] : n \in 0..k} : SortedByStart(cs)}

-----------------------------------------------------------------------------
(* The segment builder: from a text and its capture list to a document, a  *)
(* sequence of lines, each a sequence of segments (text, capture).         *)

\* 1. Lines: the text split at its line terminators.
LineBreaks(T) == {i \in 1..Len(T) : T[i] = NL}

LineCount(T) == Cardinality(LineBreaks(T)) + 1

\* The position of the n-th line terminator of T.
NthBreak(T, n) ==
    CHOOSE i \in LineBreaks(T) : Cardinality({j \in LineBreaks(T) : j < i}) = n - 1

\* The range [start, end) of line k (1-based) in T, its terminator excluded.
LineRange(T, k) ==
    [start |-> IF k = 1 THEN 0 ELSE NthBreak(T, k - 1),
     end   |-> IF k = LineCount(T) THEN Len(T) ELSE NthBreak(T, k) - 1]

\* 2. A capture clipped to a line; the captures that intersect the line.
Clip(c, r) ==
    [start |-> Max(c.start, r.start), end |-> Min(c.end, r.end), name |-> c.name]

NonEmpty(c) == c.start < c.end

ClippedCaptures(cs, r) ==
    SelectSeq([i \in 1..Len(cs) |-> Clip(cs[i], r)], NonEmpty)

\* 3. The clipped captures sorted by start offset, equal starts keeping
\* their order.
RECURSIVE InsertByStart(_, _)
InsertByStart(sorted, c) ==
    IF sorted = <<>> THEN <<c>>
    ELSE IF sorted[Len(sorted)].start <= c.start THEN Append(sorted, c)
    ELSE Append(InsertByStart(SubSeq(sorted, 1, Len(sorted) - 1), c),
                sorted[Len(sorted)])

RECURSIVE SortByStart(_)
SortByStart(cs) ==
    IF cs = <<>> THEN <<>>
    ELSE InsertByStart(SortByStart(SubSeq(cs, 1, Len(cs) - 1)), cs[Len(cs)])

Covers(c, p) == c.start <= p /\ p < c.end

RangeLen(c) == c.end - c.start

\* A capture is beaten by a shorter one, and among equally short ones by an
\* earlier one.
Beats_outermost(cs, i, j) ==
    \/ RangeLen(cs[i]) > RangeLen(cs[j])
    \/ RangeLen(cs[i]) = RangeLen(cs[j]) /\ i < j

Beats(cs, i, j) ==
    \/ RangeLen(cs[i]) < RangeLen(cs[j])
    \/ RangeLen(cs[i]) = RangeLen(cs[j]) /\ i < j

\* The index in cs of the capture that wins offset p, 0 when none covers it.
Winner(cs, p) ==
    LET covering == {i \in 1..Len(cs) : Covers(cs[i], p)}
    IN  IF covering = {} THEN 0
        ELSE CHOOSE i \in covering : \A j \in covering \ {i} : Beats(cs, i, j)

\* 4. One segment for each maximal run of offsets with the same winner.
RunEnd(cs, p, e) ==
    LET w == Winner(cs, p)
        stops == {q \in (p + 1)..(e - 1) : Winner(cs, q) # w}
    IN  IF stops = {} THEN e ELSE CHOOSE q \in stops : \A q2 \in stops : q <= q2

RECURSIVE Walk(_, _, _, _)
Walk(T, cs, p, e) ==
    IF p >= e THEN <<>>
    ELSE LET w == Winner(cs, p)
             q == RunEnd(cs, p, e)
         IN  <<[text    |-> SubSeq(T, p + 1, q),
                capture |-> IF w = 0 THEN NoCapture ELSE cs[w].name]>>
             \o Walk(T, cs, q, e)

BuildLine(T, cs, k) ==
    LET r == LineRange(T, k)
    IN  Walk(T, SortByStart(ClippedCaptures(cs, r)), r.start, r.end)

BuildDocument(T, cs) == [k \in 1..LineCount(T) |-> BuildLine(T, cs, k)]

\* asm_lang.highlight(source), given what the classifier found in source.
Highlight(T, cs) == BuildDocument(T, cs)

-----------------------------------------------------------------------------
(* The language registry *)

EmptyRegistry == [grammars |-> {}, languages |-> {}, initialized |-> FALSE]

\* The parsed config.toml of the extension: its name and its grammar.
config_toml == [name |-> "Assembly", grammar |-> "asm", hidden |-> FALSE]

\* toml::from_str on the embedded config.toml: the config, or an error.
ConfigOutcomes == {config_toml, InvalidConfig}

\* The queries of the registered language: the highlight query is set.
LanguageQueries == [highlight |-> TRUE]

LanguageEntry(c) ==
    [name |-> c.name, grammar |-> c.grammar, hidden |-> c.hidden,
     queries |-> LanguageQueries]

\* registry.language(key): the registered languages the key names.
LanguageLookup(reg, key) ==
    {e \in reg.languages :
        (e.name = key \/ e.grammar = key) /\ e.grammar \in reg.grammars}

\* The registries AssemblyViewer::new may be handed: a new one, one with the
\* native grammar alone, and one with the language registered and init done.
Registries ==
    {EmptyRegistry,
     [EmptyRegistry EXCEPT !.grammars = {"asm"}],
     [grammars |-> {"asm"}, languages |-> {LanguageEntry(config_toml)},
      initialized |-> TRUE]}

-----------------------------------------------------------------------------
(* main and register_asm_extension *)

RegisterNativeGrammars_wrongKey ==
    /\ pc = "main"
    /\ registry' = [registry EXCEPT !.grammars = @ \cup {"arm"}]
    /\ events' = Append(events, "register_native_grammars")
    /\ pc' = "load_config"
    /\ UNCHANGED <<config, window, source, asm_lang, captures, lines, viewer,
                   panic, item_count, range, items>>

RegisterNativeGrammars ==
    /\ pc = "main"
    /\ registry' = [registry EXCEPT !.grammars = @ \cup {"asm"}]
    /\ events' = Append(events, "register_native_grammars")
    /\ pc' = "load_config"
    /\ UNCHANGED <<config, window, source, asm_lang, captures, lines, viewer,
                   panic, item_count, range, items>>

LoadConfig ==
    /\ pc = "load_config"
    /\ \E c \in ConfigOutcomes :
          IF c = InvalidConfig
          THEN /\ panic' = "Invalid ASM config.toml"
               /\ pc' = "panicked"
               /\ UNCHANGED config
          ELSE /\ config' = c
               /\ pc' = "register_language"
               /\ UNCHANGED panic
    /\ UNCHANGED <<events, registry, window, source, asm_lang, captures, lines,
                   viewer, item_count, range, items>>

RegisterLanguage ==
    /\ pc = "register_language"
    /\ registry' = [registry EXCEPT !.languages = @ \cup {LanguageEntry(config)}]
    /\ events' = Append(events, "register_language")
    /\ pc' = "registry_init"
    /\ UNCHANGED <<config, window, source, asm_lang, captures, lines, viewer,
                   panic, item_count, range, items>>

RegistryInit ==
    /\ pc = "registry_init"
    /\ registry' = [registry EXCEPT !.initialized = TRUE]
    /\ events' = Append(events, "init")
    /\ pc' = "open_window"
    /\ UNCHANGED <<config, window, source, asm_lang, captures, lines, viewer,
                   panic, item_count, range, items>>

\* cx.open_window(...): the platform opens the window and calls the closure
\* that builds the root view, or fails and the unwrap panics.
OpenWindow ==
    /\ pc = "open_window"
    /\ events' = Append(events, "open_window")
    /\ \E ok \in BOOLEAN :
          IF ok
          THEN /\ window' = "opening"
               /\ pc' = "new_lookup"
               /\ UNCHANGED panic
          ELSE /\ panic' = "called Result::unwrap() on an Err value"
               /\ pc' = "panicked"
               /\ UNCHANGED window
    /\ UNCHANGED <<registry, config, source, asm_lang, captures, lines, viewer,
                   item_count, range, items>>

\* The closure returned the root view: the window is open and gets rendered.
WindowOpened ==
    /\ pc = "new_done"
    /\ window = "opening"
    /\ window' = "open"
    /\ pc' = "running"
    /\ UNCHANGED <<events, registry, config, source, asm_lang, captures, lines,
                   viewer, panic, item_count, range, items>>

-----------------------------------------------------------------------------
(* AssemblyViewer::new *)

\* A lookup that, finding no language, waits for one to be registered.
NewLookup_wait ==
    /\ pc = "new_lookup"
    /\ events' = Append(events, "lookup")
    /\ LET found == LanguageLookup(registry, "asm")
       IN  IF found = {}
           THEN /\ pc' = "new_lookup_wait"
                /\ UNCHANGED asm_lang
           ELSE /\ \E e \in found : asm_lang' = e
                /\ pc' = "new_highlight"
    /\ UNCHANGED <<registry, config, window, source, captures, lines, viewer,
                   panic, item_count, range, items>>

NewLookup ==
    /\ pc = "new_lookup"
    /\ events' = Append(events, "lookup")
    /\ LET found == LanguageLookup(registry, "asm")
       IN  IF found = {}
           THEN /\ panic' = "ASM language not found in registry"
                /\ pc' = "panicked"
                /\ UNCHANGED asm_lang
           ELSE /\ \E e \in found : asm_lang' = e
                /\ pc' = "new_highlight"
                /\ UNCHANGED panic
    /\ UNCHANGED <<registry, config, window, source, captures, lines, viewer,
                   item_count, range, items>>

\* A pass that hands the viewer its lines before the last one is built.
NewHighlight_publishPartial(outs) ==
    /\ pc = "new_highlight"
    /\ \E cs \in outs :
          /\ captures' = cs
          /\ lines' = Highlight(source, cs)
          /\ viewer' = [lines |-> SubSeq(lines', 1, Len(lines') - 1),
                        theme |-> dark_theme]
    /\ pc' = "new_construct"
    /\ UNCHANGED <<events, registry, config, window, source, asm_lang, panic,
                   item_count, range, items>>

\* let lines = asm_lang.highlight(source), outs being what the classifier may
\* find in the source.
NewHighlight(outs) ==
    /\ pc = "new_highlight"
    /\ \E cs \in outs :
          /\ captures' = cs
          /\ lines' = Highlight(source, cs)
    /\ pc' = "new_construct"
    /\ UNCHANGED <<events, registry, config, window, source, asm_lang, viewer,
                   panic, item_count, range, items>>

\* A constructor that joins all the lines into one.
MakeViewer_oneLine(ls, theme) ==
    LET RECURSIVE Cat(_)
        Cat(k) == IF k = 0 THEN <<>> ELSE Cat(k - 1) \o ls[k]
    IN  [lines |-> <<Cat(Len(ls))>>, theme |-> theme]

\* A constructor that loses the last line.
MakeViewer_dropLast(ls, theme) ==
    [lines |-> SubSeq(ls, 1, Len(ls) - 1), theme |-> theme]

\* AssemblyViewer { lines, theme }
MakeViewer(ls, theme) == [lines |-> ls, theme |-> theme]

NewConstruct ==
    /\ pc = "new_construct"
    /\ viewer' = MakeViewer(lines, dark_theme)
    /\ pc' = "new_done"
    /\ UNCHANGED <<events, registry, config, window, source, asm_lang, captures,
                   lines, panic, item_count, range, items>>

-----------------------------------------------------------------------------
(* Render for AssemblyViewer *)

\* gpui::rgb: the red, green and blue bytes of a 0xRRGGBB value.
Rgb(hex) ==
    [r |-> (hex \div 65536) % 256, g |-> (hex \div 256) % 256, b |-> hex % 256]

\* A match that also takes a dotted name by its first component.
SegmentColor_prefix(theme, capture) ==
    CASE capture = "label"    -> theme.label
      [] capture = "keyword"  -> theme.keyword
      [] capture = "keyword.control" -> theme.keyword
      [] capture = "register" -> theme.register
      [] capture = "number"   -> theme.number
      [] capture = "comment"  -> theme.comment
      [] OTHER                -> theme.default_text

\* match seg.capture.as_str() { ... }
SegmentColor(theme, capture) ==
    CASE capture = "label"    -> theme.label
      [] capture = "keyword"  -> theme.keyword
      [] capture = "register" -> theme.register
      [] capture = "number"   -> theme.number
      [] capture = "comment"  -> theme.comment
      [] OTHER                -> theme.default_text

\* The line element of line i (0-based): one coloured child per segment.
RenderLine(v, i) ==
    [j \in 1..Len(v.lines[i + 1]) |->
        [text  |-> v.lines[i + 1][j].text,
         color |-> Rgb(SegmentColor(v.theme, v.lines[i + 1][j].capture))]]

\* A callback that leaves out the lines that have no segment.
RenderRange_skipBlank(v, lo, hi) ==
    SelectSeq([k \in 1..(hi - lo) |-> RenderLine(v, lo + k - 1)],
              LAMBDA line : line # <<>>)

\* The list callback over lo..hi: the line elements, in index order.
RenderRange(v, lo, hi) == [k \in 1..(hi - lo) |-> RenderLine(v, lo + k - 1)]

ItemCount_offByOne(v) == Len(v.lines) + 1

\* self.lines.len(), the item count of the uniform list.
ItemCount(v) == Len(v.lines)

\* render: builds the uniform list over the viewer's lines.
Render ==
    /\ pc = "running"
    /\ item_count' = [n |-> ItemCount(viewer)]
    /\ UNCHANGED <<pc, events, registry, config, window, source, asm_lang,
                   captures, lines, viewer, panic, range, items>>

\* The list calls back for a range of its items; viewer.lines[i] panics on
\* an index past the end.
ListCallback ==
    /\ pc = "running"
    /\ item_count # NoCount
    /\ \E lo \in 0..item_count.n, hi \in 0..item_count.n :
          /\ lo <= hi
          /\ range' = [start |-> lo, end |-> hi]
          /\ IF \E i \in lo..(hi - 1) : i >= Len(viewer.lines)
             THEN /\ panic' = "index out of bounds"
                  /\ pc' = "panicked"
                  /\ UNCHANGED items
             ELSE /\ items' = [list |-> RenderRange(viewer, lo, hi)]
                  /\ UNCHANGED <<pc, panic>>
    /\ UNCHANGED <<events, registry, config, window, source, asm_lang, captures,
                   lines, viewer, item_count>>

-----------------------------------------------------------------------------
(* The program: main, on the demo source *)

Init ==
    /\ pc = "main"
    /\ events = <<>>
    /\ registry = EmptyRegistry
    /\ config = NoConfig
    /\ window = "closed"
    /\ source = ARM64_CODE
    /\ asm_lang = NoLang
    /\ captures = <<>>
    /\ lines = <<>>
    /\ viewer = NoViewer
    /\ panic = NoPanic
    /\ item_count = NoCount
    /\ range = NoRange
    /\ items = NoItems

Next ==
    \/ RegisterNativeGrammars
    \/ LoadConfig
    \/ RegisterLanguage
    \/ RegistryInit
    \/ OpenWindow
    \/ NewLookup
    \/ NewHighlight(ClassifierOutputs(source, CaptureNames, MaxViewCaps))
    \/ NewConstruct
    \/ WindowOpened
    \/ Render
    \/ ListCallback

Spec == Init /\ [][Next]_vars

-----------------------------------------------------------------------------
(* AssemblyViewer::new on any source and any registry *)

\* A line of ten characters and the two captures of the overlap example.
OverlapLine == <<"a", "b", "a", "b", "a", "b", "a", "b", "a", "b">>

OverlapCaptures ==
    <<[start |-> 0, end |-> 10, name |-> "keyword"],
      [start |-> 2, end |-> 5, name |-> "register"]>>

BuilderOutputs(T) ==
    IF T = OverlapLine THEN {OverlapCaptures}
    ELSE ClassifierOutputs(T, BuilderNames, MaxCaps)

InitNew ==
    /\ pc = "new_lookup"
    /\ events = <<>>
    /\ registry \in Registries
    /\ config = NoConfig
    /\ window = "closed"
    /\ source \in Texts \cup {OverlapLine}
    /\ asm_lang = NoLang
    /\ captures = <<>>
    /\ lines = <<>>
    /\ viewer = NoViewer
    /\ panic = NoPanic
    /\ item_count = NoCount
    /\ range = NoRange
    /\ items = NoItems

NextNew ==
    \/ NewLookup
    \/ NewHighlight(BuilderOutputs(source))
    \/ NewConstruct

SpecNew == InitNew /\ [][NextNew]_vars

-----------------------------------------------------------------------------
(* What the claims are stated with *)

Constructed == viewer # NoViewer

RECURSIVE SegsText(_)
\* The texts of a line's segments, concatenated in order.
SegsText(segs) ==
    IF segs = <<>> THEN <<>> ELSE segs[1].text \o SegsText(Tail(segs))

RECURSIVE JoinLines(_)
\* The lines' texts in order, a line terminator between two lines.
JoinLines(doc) ==
    IF doc = <<>> THEN <<>>
    ELSE IF Len(doc) = 1 THEN SegsText(doc[1])
    ELSE SegsText(doc[1]) \o <<NL>> \o JoinLines(Tail(doc))

RECURSIVE SplitLines(_)
\* The lines of a text: what lies between its line terminators.
SplitLines(T) ==
    IF \A i \in 1..Len(T) : T[i] # NL THEN <<T>>
    ELSE LET b == CHOOSE i \in 1..Len(T) :
                     T[i] = NL /\ \A j \in 1..(i - 1) : T[j] # NL
         IN  <<SubSeq(T, 1, b - 1)>> \o SplitLines(SubSeq(T, b + 1, Len(T)))

RECURSIVE SegsTags(_)
\* The capture of each character of a line, taken from its segments.
SegsTags(segs) ==
    IF segs = <<>> THEN <<>>
    ELSE [i \in 1..Len(segs[1].text) |-> segs[1].capture] \o SegsTags(Tail(segs))

RECURSIVE DocTags(_)
\* The capture of each character of the text, NL standing at the terminators.
DocTags(doc) ==
    IF doc = <<>> THEN <<>>
    ELSE IF Len(doc) = 1 THEN SegsTags(doc[1])
    ELSE SegsTags(doc[1]) \o <<NL>> \o DocTags(Tail(doc))

\* The offsets of the line of offset p: from after the last terminator before
\* p to the first terminator at or after p.
LineStartOf(T, p) ==
    LET before == {i \in 1..p : T[i] = NL}
    IN  IF before = {} THEN 0 ELSE CHOOSE i \in before : \A j \in before : j <= i

LineEndOf(T, p) ==
    LET after == {i \in (p + 1)..Len(T) : T[i] = NL}
    IN  IF after = {} THEN Len(T)
        ELSE (CHOOSE i \in after : \A j \in after : i <= j) - 1

\* The length of what capture c covers of the line of offset p.
LenInLineOf(T, c, p) ==
    Min(c.end, LineEndOf(T, p)) - Max(c.start, LineStartOf(T, p))

\* The captures (by index) that cover offset p.
Covering(cs, p) == {i \in 1..Len(cs) : cs[i].start <= p /\ p < cs[i].end}

\* Of the captures covering p, the names of the innermost ones.
InnermostNames(T, cs, p) ==
    {cs[i].name : i \in {i \in Covering(cs, p) :
        \A j \in Covering(cs, p) : LenInLineOf(T, cs[i], p) <= LenInLineOf(T, cs[j], p)}}

RECURSIVE SegsLen(_)
\* The offset in the text at which segment j of line k of doc starts is where
\* the lengths of the lines and segments before it place it.
SegsLen(segs) ==
    IF segs = <<>> THEN 0 ELSE Len(segs[1].text) + SegsLen(Tail(segs))

RECURSIVE LineOffset(_, _)
\* The offset at which line k starts, split being the lines of the text.
LineOffset(split, k) ==
    IF k = 1 THEN 0 ELSE LineOffset(split, k - 1) + Len(split[k - 1]) + 1

SegOffset(T, doc, k, j) ==
    LineOffset(SplitLines(T), k) + SegsLen(SubSeq(doc[k], 1, j - 1))

-----------------------------------------------------------------------------
(* Claims about AssemblyViewer::new, checked under SpecNew *)

\* C1: when the lookup of "asm" finds no registered language, construction
\* still completes: the program does not panic, and the viewer it builds has
\* no segment with a capture.
C1_MissingGrammarFallsBack ==
    (LanguageLookup(registry, "asm") = {} /\ pc # "new_lookup") =>
        /\ panic = NoPanic
        /\ pc # "panicked"
        /\ Constructed =>
              \A k \in 1..Len(viewer.lines) : \A j \in 1..Len(viewer.lines[k]) :
                  viewer.lines[k][j].capture = NoCapture

\* C2: the texts of the segments of each line of the document, concatenated,
\* are that line of the source, no segment holds a line terminator, and the
\* lines joined by line terminators are the source.
C2_RoundTrip ==
    Constructed =>
        /\ [k \in 1..Len(viewer.lines) |-> SegsText(viewer.lines[k])] = SplitLines(source)
        /\ JoinLines(viewer.lines) = source

C2_Witness ==
    /\ Constructed
    /\ Len(viewer.lines) >= 2
    /\ \E k \in 1..Len(viewer.lines) : Len(viewer.lines[k]) >= 2
    /\ \E i \in 1..Len(captures) : \E q \in captures[i].start..(captures[i].end - 1) :
          /\ source[q + 1] = NL
          /\ q > captures[i].start
          /\ \E j \in 1..Len(captures) : j # i /\ Covers(captures[j], captures[i].start)

\* C3: every character covered by captures is tagged with the name of an
\* innermost (shortest in its line) capture covering it, so that where two
\* captures overlap the shorter one wins and the rest of the longer one keeps
\* its name; captures [0,10)=keyword and [2,5)=register on a line of ten
\* characters give [0,2)=keyword, [2,5)=register, [5,10)=keyword.
C3_InnermostWins ==
    Constructed =>
        /\ LET tags == DocTags(viewer.lines)
           IN  \A p \in 0..(Len(source) - 1) :
                   (source[p + 1] # NL /\ Covering(captures, p) # {}) =>
                       tags[p + 1] \in InnermostNames(source, captures, p)
        /\ (source = OverlapLine /\ captures = OverlapCaptures) =>
              viewer.lines =
                  << <<[text |-> SubSeq(OverlapLine, 1, 2), capture |-> "keyword"],
                       [text |-> SubSeq(OverlapLine, 3, 5), capture |-> "register"],
                       [text |-> SubSeq(OverlapLine, 6, 10), capture |-> "keyword"]>> >>

C3_Witness ==
    /\ Constructed
    /\ source = OverlapLine
    /\ captures = OverlapCaptures
    /\ Len(viewer.lines[1]) = 3

\* C5: the segments of each line tile the line: each is a non-empty slice of
\* the source within the line, the first starts where the line starts, each
\* next one where the one before ends, the last ends where the line ends;
\* and a character is tagged if and only if a capture covers it, in every
\* line a capture reaches.
C5_TotalCoverage ==
    Constructed =>
        LET split == SplitLines(source)
        IN  /\ Len(viewer.lines) = Len(split)
            /\ \A k \in 1..Len(viewer.lines) :
                  LET start == LineOffset(split, k)
                  IN  /\ SegsLen(viewer.lines[k]) = Len(split[k])
                      /\ \A j \in 1..Len(viewer.lines[k]) :
                            LET seg == viewer.lines[k][j]
                                off == start + SegsLen(SubSeq(viewer.lines[k], 1, j - 1))
                            IN  /\ seg.text # <<>>
                                /\ off + Len(seg.text) <= Len(source)
                                /\ seg.text = SubSeq(source, off + 1, off + Len(seg.text))
                                /\ \A i \in 1..Len(seg.text) : seg.text[i] # NL
                                /\ \A q \in off..(off + Len(seg.text) - 1) :
                                      IF Covering(captures, q) = {}
                                      THEN seg.capture = NoCapture
                                      ELSE \E i \in Covering(captures, q) :
                                              seg.capture = captures[i].name

C5_Witness ==
    /\ Constructed
    /\ \E i \in 1..Len(captures) :
          \E k1 \in 1..Len(viewer.lines), k2 \in 1..Len(viewer.lines) :
              /\ k1 < k2
              /\ \E j \in 1..Len(viewer.lines[k1]) :
                    /\ viewer.lines[k1][j].capture = captures[i].name
                    /\ Covers(captures[i], SegOffset(source, viewer.lines, k1, j))
              /\ \E j \in 1..Len(viewer.lines[k2]) :
                    /\ viewer.lines[k2][j].capture = captures[i].name
                    /\ Covers(captures[i], SegOffset(source, viewer.lines, k2, j))

\* C8: a lookup that finds no registered language ends the call in that very
\* step with the panic "ASM language not found in registry"; there is no
\* state in which the call waits for the grammar, and no viewer is built.
C8_FailFast ==
    [][(pc = "new_lookup" /\ LanguageLookup(registry, "asm") = {}) =>
          /\ pc' = "panicked"
          /\ panic' = "ASM language not found in registry"
          /\ viewer' = NoViewer]_vars

C8_Witness ==
    /\ pc = "panicked"
    /\ panic = "ASM language not found in registry"
    /\ registry.languages = {}

-----------------------------------------------------------------------------
(* Claims about the program, checked under Spec *)

\* The bytes of the theme's colours.
ThemeRgb ==
    [label        |-> [r |-> 220, g |-> 220, b |-> 170],
     keyword      |-> [r |-> 86,  g |-> 156, b |-> 214],
     register     |-> [r |-> 78,  g |-> 201, b |-> 176],
     number       |-> [r |-> 181, g |-> 206, b |-> 168],
     comment      |-> [r |-> 106, g |-> 153, b |-> 85],
     default_text |-> [r |-> 212, g |-> 212, b |-> 212]]

\* The segment behind run j of item k of the last callback.
SegOfRun(k, j) == viewer.lines[range.start + k][j]

\* C4: every rendered run has the colour of its segment's capture name when
\* that name is label, keyword, register, number or comment, and the default
\* text colour for any other name: an unknown one, none, or one that only
\* starts with a known name.
C4_ColorTotal ==
    items # NoItems =>
        \A k \in 1..Len(items.list) : \A j \in 1..Len(items.list[k]) :
            items.list[k][j].color =
                IF SegOfRun(k, j).capture \in ThemedNames
                THEN ThemeRgb[SegOfRun(k, j).capture]
                ELSE ThemeRgb.default_text

C4_Witness ==
    /\ items # NoItems
    /\ \E k \in 1..Len(items.list) : \E j \in 1..Len(items.list[k]) :
          /\ SegOfRun(k, j).capture = "keyword.control"
          /\ items.list[k][j].color = ThemeRgb.default_text
    /\ \E k \in 1..Len(items.list) : \E j \in 1..Len(items.list[k]) :
          SegOfRun(k, j).capture = NoCapture

ItemsMatchRange ==
    items # NoItems =>
        /\ Len(items.list) = range.end - range.start
        /\ \A k \in 1..Len(items.list) :
              /\ Len(items.list[k]) = Len(viewer.lines[range.start + k])
              /\ \A j \in 1..Len(items.list[k]) :
                    /\ items.list[k][j].text = SegOfRun(k, j).text
                    /\ \E f \in DOMAIN ThemeRgb : items.list[k][j].color = ThemeRgb[f]

\* C7: every step leaves a constructed viewer as it is; what a callback
\* returns is one item for each index of its range in ascending order, each
\* with one (text, colour) run for each segment of its line in order; and an
\* index that two successive callbacks both cover gets the same item.
C7_RenderQueryIsPure ==
    [][/\ Constructed => viewer' = viewer
       /\ ItemsMatchRange'
       /\ (items # NoItems /\ items' # NoItems) =>
             \A i \in range.start..(range.end - 1) :
                 (range'.start <= i /\ i < range'.end) =>
                     items'.list[i - range'.start + 1] = items.list[i - range.start + 1]]_vars

C7_Witness ==
    /\ items # NoItems
    /\ range.start >= 1
    /\ Len(items.list) >= 2
    /\ \E k \in 1..Len(items.list) : items.list[k] = <<>>
    /\ \E k \in 1..Len(items.list) : Len(items.list[k]) >= 2

\* The order of main's calls.
MainOrder ==
    <<"register_native_grammars", "register_language", "init", "open_window",
      "lookup">>

\* C9: main's calls happen in the order register_native_grammars,
\* register_language, init, open_window, lookup; at the lookup the grammar
\* "asm" and a language on it, with its highlight query, are registered and
\* the registry is initialised; and the lookup finds the entry that
\* register_asm_extension registered.
C9_RegisteredBeforeLookup ==
    /\ Len(events) <= Len(MainOrder)
    /\ events = SubSeq(MainOrder, 1, Len(events))
    /\ pc = "new_lookup" =>
          /\ "asm" \in registry.grammars
          /\ \E e \in registry.languages : e.grammar = "asm" /\ e.queries.highlight
          /\ registry.initialized
          /\ window = "opening"
    /\ panic # "ASM language not found in registry"
    /\ asm_lang # NoLang =>
          /\ asm_lang = LanguageEntry(config)
          /\ asm_lang \in registry.languages
          /\ asm_lang.grammar \in registry.grammars

C9_Witness ==
    /\ events = MainOrder
    /\ asm_lang # NoLang
    /\ pc = "new_highlight"

\* C10: the item count of the list is the number of lines of the viewer, the
\* viewer's lines stay the ones it was built with, every index of a range
\* the callback gets is below that number, and no indexing panics.
C10_IndexInBounds ==
    /\ item_count # NoCount => item_count.n = Len(viewer.lines)
    /\ Constructed => viewer.lines = lines
    /\ range # NoRange =>
          \A i \in range.start..(range.end - 1) : 0 <= i /\ i < Len(viewer.lines)
    /\ panic # "index out of bounds"

C10_Witness ==
    /\ range # NoRange
    /\ range.start = 0
    /\ range.end = Len(viewer.lines)
    /\ range.end >= 3
    /\ items # NoItems
    /\ Len(items.list) = range.end

====
